---- MODULE Spec2Model ----
(***************************************************************************)
(* A state-machine model of the streaming gateway                          *)
(* (src/smart_tv_telegram/http.py, class Http) and of the playback-session *)
(* engine (src/castbot/video.py, classes PlayingVideos and PlayingVideo).  *)
(*                                                                         *)
(* Coroutines are cut at their await points: one action is the code a      *)
(* coroutine runs between two suspensions, so every interleaving the       *)
(* single-threaded event loop admits is an interleaving of these actions.  *)
(* A byte of the content is represented by its offset, which makes every   *)
(* byte distinct and lets "the bytes of a window" be read off directly.    *)
(***************************************************************************)
EXTENDS Integers, Sequences, FiniteSets, TLC

\* ------------------------------------------------------------------ bounds
\* Range arithmetic (SpecStream): content sizes 0..MaxSize and block sizes
\* 1..MaxBlockSize.
MaxSize == 5
MaxBlockSize == 3
\* Protocol runs (SpecHttp): content sizes 1..ProtoMaxSize, one block size.
ProtoMaxSize == 3
ProtoBlockSize == 2
\* Partial (per-session) tokens range over 0..MaxPartial (SpecStream).
MaxPartial == 0
\* Session coroutines in flight at once.
MaxTasks == 1
\* Control messages one session may create.
MaxMessages == 2
\* Session coroutines in flight at once where renders overlap (SpecOverlap).
MaxOverlap == 2
\* Device names have 1..MaxName characters (SpecRestart).
MaxName == 2

\* ------------------------------------------------------------- vocabulary
\* Python's None.
None == -1
\* A path segment that str.isdigit() rejects.
NotDigits == -2

MessageIds == {1, 2}
Clients == {1}

Max(a, b) == IF a >= b THEN a ELSE b
Min(a, b) == IF a <= b THEN a ELSE b

\* ------------------------------------------------------ external helpers
\* tools.serialize_token: packs (message_id, partial token) into one integer.
TokenShift == 4
serialize_token(message_id, token) == token * TokenShift + message_id

\* The Range headers a client may send: absent, unparsable, or bytes=S-[E]
\* with S and E up to `top` (one past the largest content is enough: every
\* comparison the handler makes is against the content size).
RangeHeaders(top) ==
    {[kind |-> "absent", start |-> 0, end |-> None],
     [kind |-> "malformed", start |-> 0, end |-> None]}
    \cup {[kind |-> "bytes", start |-> s, end |-> e] :
            s \in 0..top, e \in {None} \cup 0..top}

\* tools.parse_http_range(range_header, block_size):
\* (block-aligned fetch offset, bytes to skip, exclusive end or None).
parse_http_range(range_header, bs) ==
    LET safe_offset == (range_header.start \div bs) * bs
    IN  [offset |-> safe_offset,
         data_to_skip |-> range_header.start - safe_offset,
         max_size |-> IF range_header.end = None THEN None
                      ELSE range_header.end + 1]

\* Mtproto.get_block(message, offset, block_size): the block_size bytes of the
\* content at offset, fewer at the end of the content.
get_block(size, offset, bs) ==
    [i \in 1..Max(0, Min(offset + bs, size) - offset) |-> offset + i - 1]

\* The elements of a sequence.
Elements(seq) == {seq[i] : i \in 1..Len(seq)}

\* dict helpers: d[k] = v, del d[k].
EmptyDict == [k \in {} |-> None]
Put(d, k, v) == [x \in (DOMAIN d) \cup {k} |-> IF x = k THEN v ELSE d[x]]
Del(d, k) == [x \in (DOMAIN d) \ {k} |-> d[x]]

\* Python slices block[k:] and block[:-k] (k > 0).
SliceFrom(block, k) == SubSeq(block, k + 1, Len(block))
SliceDropLast(block, k) == SubSeq(block, 1, Len(block) - k)

\* -------------------------------------------------------------- variables
VARIABLES
    block_size,         \* config.block_size
    partials,           \* the partial tokens the bot hands out
    media,              \* the media backend: message id -> what get_message finds
    device_name,        \* the display name of each device (get_device_name)
    tokens,             \* Http._tokens
    downloaded_blocks,  \* Http._downloaded_blocks (a dict: its DOMAIN is its keys)
    stream_debounce,    \* Http._stream_debounce (a dict of debouncers)
    req,                \* the stream requests in flight, one per client
    ever_authorized,    \* history: every token passed to add_remote_token
    last_timeout,       \* history: the last run of _timeout_handler
    closed_sessions,    \* history: tokens whose session close() or
                        \* handle_closed() returned normally and that were
                        \* not authorized again since
    reaped_live,        \* history: tokens reaped by the idle timeout while their
                        \* session was in the registry, no session call since
    playing_videos,     \* the keys of PlayingVideos._playing_videos
    video,              \* the PlayingVideo objects, by local token
    control_messages,   \* the control messages a session created in the chat
    tasks               \* the session coroutines in flight

config == <<block_size, partials, media, device_name>>

\* Every local token a stream URL or a session can carry.
LocalTokens == {serialize_token(m, p) : m \in MessageIds, p \in partials}

gateway == <<tokens, downloaded_blocks, stream_debounce>>
sessions == <<playing_videos, video, control_messages, tasks>>

vars == <<block_size, partials, media, device_name, tokens, downloaded_blocks, stream_debounce, req,
          ever_authorized, last_timeout, closed_sessions, reaped_live,
          playing_videos, video, control_messages, tasks>>

\* The slots of the session coroutines.
Tasks == DOMAIN tasks

\* ------------------------------------------------------------------- Http
IdleReq ==
    [pc |-> "idle", message_id |-> None, local_token |-> None,
     offset |-> 0, data_to_skip |-> 0, max_size |-> None, size |-> 0,
     read_after |-> 0, status |-> 0, content_length |-> None,
     content_range |-> <<>>, written |-> <<>>, alive |-> TRUE,
     new_offset |-> 0,
     range |-> [kind |-> "absent", start |-> 0, end |-> None],
     known |-> FALSE, after_close |-> FALSE, calls |-> {}]

\* Http.__init__, with a configuration and a media backend drawn from the
\* given sets: message 1 is a document, message 2 is not one or is missing.
InitHttp(block_sizes, sizes, partial_tokens) ==
    /\ block_size \in block_sizes
    /\ partials = partial_tokens
    /\ media \in {f \in [MessageIds -> [kind : {"document", "other", "missing"},
                                        size : sizes \cup {0}]] :
                    /\ f[1].kind = "document" /\ f[1].size \in sizes
                    /\ f[2].kind # "document" /\ f[2].size = 0}
    /\ tokens = {}
    /\ downloaded_blocks = EmptyDict
    /\ stream_debounce = EmptyDict
    /\ req = [c \in Clients |-> IdleReq]
    /\ ever_authorized = {}
    /\ closed_sessions = {}
    /\ reaped_live = {}
    /\ last_timeout = [outcome |-> "none", local_token |-> None, size |-> 0,
                       remain_blocks |-> 0, blocks |-> 0]

\* Http.add_remote_token
add_remote_token(message_id, partial_remote_token) ==
    LET local_token == serialize_token(message_id, partial_remote_token)
    IN  /\ tokens' = tokens \cup {local_token}
        /\ ever_authorized' = ever_authorized \cup {local_token}
        /\ closed_sessions' = closed_sessions \ {local_token}

AddRemoteToken ==
    \E m \in MessageIds, p \in partials :
        /\ add_remote_token(m, p)
        /\ UNCHANGED <<config, downloaded_blocks, stream_debounce, req,
                       last_timeout, reaped_live, sessions>>

\* A token check that lets every token through.
check_local_token_open(local_token) == TRUE

\* Http._check_local_token
check_local_token(local_token) == local_token \in tokens

\* Message.from_id of a stored message: the chat the media came from.
from_id(message_id) == 100 + message_id

\* Http._write_http_range_headers: the Content-Range triple and Content-Length.
write_http_range_headers(read_after, size, max_size) ==
    [content_range |-> <<read_after, max_size, size>>,
     content_length |-> size]

\* AsyncDebounce.update_args as _feed_timeout uses it: the debouncer of the
\* token (created on first use) takes the new arguments and restarts its timer.
feed_timeout(message_id, chat_id, local_token, size) ==
    stream_debounce' = Put(stream_debounce, local_token,
                           [message_id |-> message_id, chat_id |-> chat_id,
                            size |-> size, armed |-> TRUE])

\* Http._feed_downloaded_blocks
feed_downloaded_blocks(block_id, local_token) ==
    downloaded_blocks' =
        Put(downloaded_blocks, local_token,
            (IF local_token \in DOMAIN downloaded_blocks
             THEN downloaded_blocks[local_token] ELSE {}) \cup {block_id})

\* The head of `while offset < max_size` for the request locals r: feed the
\* debouncer and ask for the next block, or leave the loop and write_eof.
LoopHead(c, r) ==
    IF r.offset < r.max_size
    THEN /\ feed_timeout(r.message_id, from_id(r.message_id), r.local_token, r.size)
         /\ req' = [req EXCEPT ![c] =
                [r EXCEPT !.pc = "get_block",
                          !.calls = @ \cup {"feed_timeout", "get_block"}]]
    ELSE /\ UNCHANGED stream_debounce
         /\ req' = [req EXCEPT ![c] = [r EXCEPT !.pc = "done"]]

\* Http._stream_handler, from its entry to `await self._mtproto.get_message`.
StreamHandlerEntry(c, seg_message_id, seg_token, range_header) ==
    LET r0 == IdleReq
        local_token == serialize_token(seg_message_id, seg_token)
        r1 == [r0 EXCEPT !.message_id = seg_message_id,
                         !.local_token = local_token,
                         !.known = local_token \in ever_authorized,
                         !.after_close = local_token \in closed_sessions]
        parsed == parse_http_range(range_header, block_size)
        r2 == [r1 EXCEPT !.range = range_header]
        r3 == IF range_header.kind = "absent"
              THEN r2
              ELSE [r2 EXCEPT !.offset = parsed.offset,
                              !.data_to_skip = parsed.data_to_skip,
                              !.max_size = parsed.max_size]
        Answer(r, status) == [r EXCEPT !.pc = "done", !.status = status]
    IN  /\ req[c].pc = "idle"
        /\ req' = [req EXCEPT ![c] =
             IF seg_message_id = NotDigits \/ seg_token = NotDigits
                 THEN Answer(r0, 401)
             ELSE IF ~check_local_token(local_token)
                 THEN Answer(r1, 403)
             ELSE IF range_header.kind = "malformed"
                 THEN Answer(r2, 400)
             ELSE IF r3.data_to_skip > block_size
                 THEN Answer(r3, 500)
             ELSE [r3 EXCEPT !.pc = "get_message",
                             !.calls = @ \cup {"get_message"}]]
        /\ UNCHANGED <<config, gateway, ever_authorized, last_timeout,
                       closed_sessions, reaped_live, sessions>>

\* The size of the largest content the backend holds.
ContentBound ==
    CHOOSE s \in {media[m].size : m \in MessageIds} :
        \A m \in MessageIds : media[m].size <= s

StreamRequest ==
    \E c \in Clients,
       seg_message_id \in MessageIds \cup {NotDigits},
       seg_token \in partials \cup {NotDigits},
       range_header \in RangeHeaders(ContentBound + 1) :
        StreamHandlerEntry(c, seg_message_id, seg_token, range_header)

\* A request without a Range header.
StreamRequestNoRange ==
    \E c \in Clients,
       seg_message_id \in MessageIds \cup {NotDigits},
       seg_token \in partials \cup {NotDigits} :
        StreamHandlerEntry(c, seg_message_id, seg_token,
                           [kind |-> "absent", start |-> 0, end |-> None])

\* The handler has returned and the client sends its next request.
StreamReturn ==
    \E c \in Clients :
        /\ req[c].pc = "done"
        /\ req' = [req EXCEPT ![c] = IdleReq]
        /\ UNCHANGED <<config, gateway, ever_authorized, last_timeout,
                       closed_sessions, reaped_live, sessions>>

\* A bounds check that looks at the start of the range only.
range_out_of_bounds_start_only(read_after, size, max_size) == read_after > size

\* The two bounds checks of _stream_handler: the range starts beyond the
\* content, or its explicit end lies beyond it.
range_out_of_bounds(read_after, size, max_size) ==
    \/ read_after > size
    \/ max_size # None /\ size < max_size

\* A status that looks at the start of the range only.
response_status_start_only(read_after, size, max_size) ==
    IF read_after # 0 THEN 206 ELSE 200

\* `206 if (read_after or (max_size != size)) else 200`
response_status(read_after, size, max_size) ==
    IF read_after # 0 \/ max_size # size THEN 206 ELSE 200

\* Http._stream_handler, from the return of get_message to the first
\* `await self._mtproto.get_block` (stream.prepare touches no gateway state).
StreamHandlerMessage(c) ==
    LET r == req[c]
        message == media[r.message_id]
        size == message.size
        read_after == r.offset + r.data_to_skip
        max_size == IF r.max_size = None THEN size ELSE r.max_size
        headers == write_http_range_headers(read_after, size, max_size)
        Answer(status) == [r EXCEPT !.pc = "done", !.status = status]
    IN  /\ r.pc = "get_message"
        /\ IF message.kind # "document"
               THEN req' = [req EXCEPT ![c] = Answer(404)]
                    /\ UNCHANGED stream_debounce
           ELSE IF range_out_of_bounds(read_after, size, r.max_size)
               THEN req' = [req EXCEPT ![c] = Answer(400)]
                    /\ UNCHANGED stream_debounce
           ELSE LoopHead(c, [r EXCEPT
                    !.size = size,
                    !.read_after = read_after,
                    !.max_size = max_size,
                    !.status = response_status(read_after, size, max_size),
                    !.content_range = headers.content_range,
                    !.content_length = headers.content_length])
        /\ UNCHANGED <<config, tokens, downloaded_blocks, ever_authorized,
                       last_timeout, closed_sessions, reaped_live, sessions>>

StreamGetMessage == \E c \in Clients : StreamHandlerMessage(c)

\* A trim that forgets to drop the leading data_to_skip bytes.
trim_block_noskip(block, data_to_skip, new_offset, max_size) ==
    IF new_offset > max_size
    THEN SliceDropLast(block, new_offset - max_size)
    ELSE block

\* The block of one loop iteration as it is written to the client: the
\* fetched block without its first data_to_skip bytes and without what lies
\* beyond max_size.
trim_block(block, data_to_skip, new_offset, max_size) ==
    LET skipped == IF data_to_skip # 0 THEN SliceFrom(block, data_to_skip)
                   ELSE block
    IN  IF new_offset > max_size
        THEN SliceDropLast(skipped, new_offset - max_size)
        ELSE skipped

\* Http._stream_handler, from the return of get_block with the block
\* `fetched` to `await stream.write` (or, on a transport that is gone or
\* closing, to write_eof).
StreamHandlerFetched(c, fetched) ==
    LET r == req[c]
        new_offset == r.offset + Len(fetched)
        block == trim_block(fetched, r.data_to_skip, new_offset, r.max_size)
    IN  /\ r.pc = "get_block"
        /\ req' = [req EXCEPT ![c] =
             IF ~r.alive
             THEN [r EXCEPT !.pc = "done", !.data_to_skip = 0]
             ELSE [r EXCEPT !.pc = "write",
                            !.data_to_skip = 0,
                            !.new_offset = new_offset,
                            !.written = @ \o block,
                            !.calls = @ \cup {"write"}]]
        /\ UNCHANGED <<config, gateway, ever_authorized, last_timeout,
                       closed_sessions, reaped_live, sessions>>

\* The backend returns the block of the content at the cursor.
StreamHandlerBlock(c) ==
    StreamHandlerFetched(c, get_block(req[c].size, req[c].offset, block_size))

StreamGetBlock == \E c \in Clients : StreamHandlerBlock(c)

\* The backend returns an empty block.
StreamGetBlockEmpty == \E c \in Clients : StreamHandlerFetched(c, <<>>)

\* Http._stream_handler, from the return of stream.write to the next
\* `await self._mtproto.get_block`, or to write_eof when the loop ends.
StreamHandlerWritten(c) ==
    LET r == req[c]
    IN  /\ r.pc = "write"
        /\ feed_downloaded_blocks(r.offset, r.local_token)
        /\ LoopHead(c, [r EXCEPT !.offset = r.new_offset,
                                 !.calls = @ \cup {"feed_downloaded_blocks"}])
        /\ UNCHANGED <<config, tokens, ever_authorized, last_timeout,
                       closed_sessions, reaped_live, sessions>>

StreamWritten == \E c \in Clients : StreamHandlerWritten(c)

\* The client goes away while its request is being served: from then on
\* request.transport is None or closing.
ClientDisconnect ==
    \E c \in Clients :
        /\ req[c].pc \in {"get_message", "get_block", "write"}
        /\ req[c].alive
        /\ req' = [req EXCEPT ![c].alive = FALSE]
        /\ UNCHANGED <<config, gateway, ever_authorized, last_timeout,
                       closed_sessions, reaped_live, sessions>>

\* Http._timeout_handler(message_id, chat_id, local_token, size), run by the
\* debouncer of local_token with the arguments of its last feed.
timeout_handler(message_id, chat_id, local_token, size) ==
    LET blocks == size \div block_size
        Raised(error) ==
            /\ last_timeout' = [outcome |-> error, local_token |-> local_token,
                                size |-> size, remain_blocks |-> 0,
                                blocks |-> blocks]
            /\ stream_debounce' = [stream_debounce EXCEPT ![local_token].armed = FALSE]
            /\ UNCHANGED <<tokens, downloaded_blocks>>
    IN  IF local_token \notin DOMAIN downloaded_blocks
            THEN Raised("KeyError")
        ELSE IF blocks = 0
            THEN Raised("ZeroDivisionError")
        ELSE IF local_token \notin tokens
            THEN Raised("KeyError")
        ELSE /\ tokens' = tokens \ {local_token}
             /\ downloaded_blocks' = Del(downloaded_blocks, local_token)
             /\ stream_debounce' = Del(stream_debounce, local_token)
             /\ last_timeout' =
                    [outcome |-> "notified", local_token |-> local_token,
                     size |-> size,
                     remain_blocks |->
                         blocks - Cardinality(downloaded_blocks[local_token]),
                     blocks |-> blocks]

\* AsyncDebounce: the timer of a fed debouncer runs out.
Timeout ==
    \E t \in DOMAIN stream_debounce :
        /\ stream_debounce[t].armed
        /\ timeout_handler(stream_debounce[t].message_id,
                           stream_debounce[t].chat_id, t,
                           stream_debounce[t].size)
        /\ reaped_live' = IF last_timeout'.outcome = "notified"
                             /\ t \in playing_videos
                          THEN reaped_live \cup {t} ELSE reaped_live
        /\ UNCHANGED <<config, req, ever_authorized, closed_sessions, sessions>>

\* ---------------------------------------------------------- PlayingVideo
\* The devices a session can be bound to; "tv" has pause and resume.
Devices == {"tv", "dlna"}
NoDevice == "NONE"

\* The values close() and handle_closed() are given: a percentage.
Remains == {0, 50, 100}

\* The characters of a device name: a letter, a comma, and a character that
\* html.escape rewrites.
Chars == {"a", ",", "<"}

\* The names of 1..n characters.
Names(n) == UNION {[1..len -> Chars] : len \in 1..n}

\* A device directory: every device has a name of its own, out of `names`.
InitDevices(names) ==
    device_name \in {f \in [Devices -> names] :
                       \A d, e \in Devices : f[d] = f[e] => d = e}

IdleTask ==
    [op |-> "none", pc |-> "idle", tok |-> None, cmd |-> "none",
     remains |-> None, device |-> NoDevice, result |-> "none",
     text |-> <<>>, shown |-> <<>>, device_failed |-> FALSE, events |-> <<>>,
     not_modified |-> FALSE, control |-> None, parsed |-> <<>>]

\* PlayingVideos.__init__, with room for n session coroutines at once.
InitTasks(n) ==
    /\ playing_videos = {}
    /\ video = EmptyDict
    /\ control_messages = EmptyDict
    /\ tasks = [k \in 1..n |-> IdleTask]

InitVideo == InitTasks(MaxTasks)

Free(k) == tasks[k].pc \in {"idle", "done"}
Running(t) == \E k \in Tasks : ~Free(k) /\ tasks[k].tok = t

\* PlayingVideo._gen_device_str
gen_device_str(playing_device) ==
    IF playing_device # NoDevice THEN playing_device ELSE "NONE"

\* The text send_stopped_control_message(remaining) renders.
stopped_text(playing_device, remaining) ==
    IF remaining = None \/ remaining = 0
    THEN [view |-> "Controller", device |-> gen_device_str(playing_device),
          remaining |-> None]
    ELSE [view |-> "Streaming closed", device |-> gen_device_str(playing_device),
          remaining |-> remaining]

\* The text send_playing_control_message renders.
playing_text(playing_device) ==
    [view |-> "Playing", device |-> gen_device_str(playing_device),
     remaining |-> None]

\* The text send_paused_control_message renders.
paused_text(playing_device) ==
    [view |-> "Paused", device |-> gen_device_str(playing_device),
     remaining |-> None]

\* PlayingVideo.create_or_update_control_message up to its await: edit the
\* control message if the session has one, reply to the video message if not.
create_or_update_control_message(task, text) ==
    [task EXCEPT !.pc = IF video[task.tok].control_message # None
                        THEN "edit" ELSE "reply",
                 !.text = text,
                 !.events = Append(@, text.view)]

\* The coroutine of a task ends: it returns, or raises `result`.
Return(task, result) == [task EXCEPT !.pc = "done", !.result = result]

\* A device command is issued and awaited.
device_call(task, cmd) ==
    [task EXCEPT !.pc = "device", !.cmd = cmd, !.events = Append(@, cmd)]

\* The tokens of the messages that hold a video.
VideoTokens ==
    {serialize_token(m, p) : m \in {x \in MessageIds : media[x].kind = "document"},
                             p \in partials}

\* PlayingVideos.new_video, as the bot calls it for the first play command on
\* a video message.
NewVideo ==
    \E t \in VideoTokens, d \in Devices \cup {NoDevice} :
        /\ t \notin playing_videos
        /\ ~Running(t)
        /\ playing_videos' = playing_videos \cup {t}
        /\ video' = Put(video, t, [playing_device |-> d, control_message |-> None])
        /\ control_messages' = Put(control_messages, t, <<>>)
        /\ reaped_live' = reaped_live \ {t}
        /\ UNCHANGED <<config, gateway, req, ever_authorized, last_timeout,
                       closed_sessions, tasks>>

\* PlayingVideo.select_device, to the await of its render.
SelectDevice ==
    \E k \in Tasks, t \in playing_videos, d \in Devices :
        /\ Free(k)
        /\ video' = [video EXCEPT ![t].playing_device = d]
        /\ tasks' = [tasks EXCEPT ![k] =
              create_or_update_control_message(
                  [IdleTask EXCEPT !.op = "select_device", !.tok = t],
                  stopped_text(d, None))]
        /\ reaped_live' = reaped_live \ {t}
        /\ UNCHANGED <<config, gateway, req, ever_authorized, last_timeout,
                       closed_sessions, playing_videos, control_messages>>

\* PlayingVideo.stop, to its first await: the device's stop when a device is
\* bound, the render of the stopped view when none is.
Stop ==
    \E k \in Tasks, t \in playing_videos :
        LET task == [IdleTask EXCEPT !.op = "stop", !.tok = t]
        IN  /\ Free(k)
            /\ tasks' = [tasks EXCEPT ![k] =
                  IF video[t].playing_device # NoDevice
                  THEN device_call(task, "stop")
                  ELSE create_or_update_control_message(
                           task, stopped_text(video[t].playing_device, None))]
            /\ reaped_live' = reaped_live \ {t}
            /\ UNCHANGED <<config, gateway, req, ever_authorized, last_timeout,
                           closed_sessions, playing_videos, video,
                           control_messages>>

\* PlayingVideo.close(remains), to the await of its render.
Close ==
    \E k \in Tasks, t \in playing_videos, remains \in Remains :
        /\ Free(k)
        /\ tasks' = [tasks EXCEPT ![k] =
              create_or_update_control_message(
                  [IdleTask EXCEPT !.op = "close", !.tok = t,
                                   !.remains = remains,
                                   !.device = video[t].playing_device],
                  stopped_text(video[t].playing_device, remains))]
        /\ reaped_live' = reaped_live \ {t}
        /\ UNCHANGED <<config, gateway, req, ever_authorized, last_timeout,
                       closed_sessions, playing_videos, video, control_messages>>

\* PlayingVideos.handle_closed(remains, local_token), to the await of its
\* render; it does nothing for a token that has no session.
HandleClosed ==
    \E k \in Tasks, t \in LocalTokens, remains \in Remains :
        /\ Free(k)
        /\ tasks' = [tasks EXCEPT ![k] =
              IF t \in playing_videos
              THEN create_or_update_control_message(
                       [IdleTask EXCEPT !.op = "handle_closed", !.tok = t,
                                        !.remains = remains,
                                        !.device = video[t].playing_device],
                       stopped_text(video[t].playing_device, remains))
              ELSE Return([IdleTask EXCEPT !.op = "handle_closed", !.tok = t,
                                           !.remains = remains], "ok")]
        /\ reaped_live' = reaped_live \ {t}
        /\ UNCHANGED <<config, gateway, req, ever_authorized, last_timeout,
                       closed_sessions, playing_videos, video, control_messages>>

\* PlayingVideos.add_to_http: the gateway authorizes the token of the session
\* (Http.add_remote_token of the castbot gateway, given the session).
add_to_http(local_token) ==
    /\ tokens' = tokens \cup {local_token}
    /\ ever_authorized' = ever_authorized \cup {local_token}
    /\ closed_sessions' = closed_sessions \ {local_token}

\* PlayingVideo.play, to its first await: no effect at all without a device;
\* with one, the token is authorized and the device's stop is awaited
\* (pyrogram_filename only reads the video message).
Play ==
    \E k \in Tasks, t \in playing_videos :
        LET task == [IdleTask EXCEPT !.op = "play", !.tok = t,
                                     !.device = video[t].playing_device]
        IN  /\ Free(k)
            /\ IF video[t].playing_device = NoDevice
               THEN /\ tasks' = [tasks EXCEPT ![k] =
                                     Return(task, "NoDeviceException")]
                    /\ UNCHANGED <<tokens, ever_authorized, closed_sessions>>
               ELSE /\ add_to_http(t)
                    /\ tasks' = [tasks EXCEPT ![k] =
                           device_call([task EXCEPT !.events = <<"add_to_http">>],
                                       "stop")]
            /\ reaped_live' = reaped_live \ {t}
            /\ UNCHANGED <<config, downloaded_blocks, stream_debounce, req,
                           last_timeout, playing_videos, video, control_messages>>

\* A play that goes on to the next step when a device command fails.
play_after_device_swallow(task, ok) ==
    IF task.cmd = "stop"
    THEN device_call([task EXCEPT !.device_failed = ~ok], "play")
    ELSE create_or_update_control_message(
             [task EXCEPT !.device_failed = ~ok],
             playing_text(video[task.tok].playing_device))

\* PlayingVideo.play after a device command: `await self.playing_device.play`
\* follows the stop, the render of the playing view follows the play, and a
\* failure of either command ends the coroutine.
play_after_device(task, ok) ==
    IF ~ok
        THEN Return([task EXCEPT !.device_failed = TRUE], "DeviceError")
    ELSE IF task.cmd = "stop"
        THEN device_call(task, "play")
    ELSE create_or_update_control_message(
             task, playing_text(video[task.tok].playing_device))

\* A capability test that every device passes.
hasattr_always(device, cmd) == TRUE

\* hasattr(self.playing_device, "pause" / "resume"): "tv" can pause and
\* resume, "dlna" cannot.
hasattr(device, cmd) == device = "tv" /\ cmd \in {"pause", "resume"}

\* PlayingVideo.pause and PlayingVideo.resume, to their first await.
pause_or_resume(task, cmd) ==
    IF task.device = NoDevice
        THEN Return(task, "NoDeviceException")
    ELSE IF ~hasattr(task.device, cmd)
        THEN Return(task, "ActionNotSupportedException")
    ELSE device_call(task, cmd)

Pause ==
    \E k \in Tasks, t \in playing_videos :
        /\ Free(k)
        /\ tasks' = [tasks EXCEPT ![k] =
              pause_or_resume([IdleTask EXCEPT !.op = "pause", !.tok = t,
                                  !.device = video[t].playing_device], "pause")]
        /\ reaped_live' = reaped_live \ {t}
        /\ UNCHANGED <<config, gateway, req, ever_authorized, last_timeout,
                       closed_sessions, playing_videos, video, control_messages>>

Resume ==
    \E k \in Tasks, t \in playing_videos :
        /\ Free(k)
        /\ tasks' = [tasks EXCEPT ![k] =
              pause_or_resume([IdleTask EXCEPT !.op = "resume", !.tok = t,
                                  !.device = video[t].playing_device], "resume")]
        /\ reaped_live' = reaped_live \ {t}
        /\ UNCHANGED <<config, gateway, req, ever_authorized, last_timeout,
                       closed_sessions, playing_videos, video, control_messages>>

\* PlayingVideo.pause / resume after the device command: the paused or the
\* playing view is rendered; a failure of the command ends the coroutine.
pause_after_device(task, ok) ==
    IF ~ok
        THEN Return([task EXCEPT !.device_failed = TRUE], "DeviceError")
    ELSE create_or_update_control_message(
             task,
             IF task.op = "pause"
             THEN paused_text(video[task.tok].playing_device)
             ELSE playing_text(video[task.tok].playing_device))

\* A stop that lets the failure of the device out.
stop_after_device_raise(task, ok) ==
    IF ok
    THEN create_or_update_control_message(
             task, stopped_text(video[task.tok].playing_device, None))
    ELSE Return([task EXCEPT !.device_failed = TRUE], "DeviceError")

\* PlayingVideo.stop after `await self.playing_device.stop()`: a failure of
\* the device is logged and swallowed, the stopped view is rendered.
stop_after_device(task, ok) ==
    create_or_update_control_message(
        [task EXCEPT !.device_failed = ~ok],
        stopped_text(video[task.tok].playing_device, None))

\* A coroutine resumes from the device command it awaited, which returned
\* (ok) or raised.
AfterDevice(k, ok) ==
    LET task == tasks[k]
        t == task.tok
        failed == [task EXCEPT !.device_failed = TRUE]
    IN  /\ task.pc = "device"
        /\ CASE task.op = "stop" ->
                  /\ tasks' = [tasks EXCEPT ![k] = stop_after_device(task, ok)]
                  /\ UNCHANGED <<playing_videos, closed_sessions>>
             [] task.op = "play" ->
                  /\ tasks' = [tasks EXCEPT ![k] = play_after_device(task, ok)]
                  /\ UNCHANGED <<playing_videos, closed_sessions>>
             [] task.op \in {"pause", "resume"} ->
                  /\ tasks' = [tasks EXCEPT ![k] = pause_after_device(task, ok)]
                  /\ UNCHANGED <<playing_videos, closed_sessions>>
             [] task.op = "close" ->
                  \* close: `self.playing_videos.remove(self)` follows on_close
                  IF ok
                  THEN /\ tasks' = [tasks EXCEPT ![k] =
                              Return([task EXCEPT !.events = Append(@, "remove")],
                                     "ok")]
                       /\ playing_videos' = playing_videos \ {t}
                       /\ closed_sessions' = closed_sessions \cup {t}
                  ELSE /\ tasks' = [tasks EXCEPT ![k] = Return(failed, "DeviceError")]
                       /\ UNCHANGED <<playing_videos, closed_sessions>>
             [] task.op = "handle_closed" ->
                  \* handle_closed: on_close is its last statement
                  /\ tasks' = [tasks EXCEPT ![k] =
                         IF ok THEN Return(task, "ok")
                         ELSE Return(failed, "DeviceError")]
                  /\ closed_sessions' = IF ok THEN closed_sessions \cup {t}
                                         ELSE closed_sessions
                  /\ UNCHANGED playing_videos
        /\ UNCHANGED <<config, gateway, req, ever_authorized, last_timeout,
                       reaped_live, video, control_messages>>

DeviceReturns == \E k \in Tasks : AfterDevice(k, TRUE)
DeviceRaises == \E k \in Tasks : AfterDevice(k, FALSE)

\* What follows the render in each coroutine.
AfterRender(k, task) ==
    LET t == task.tok
    IN  CASE task.op \in {"select_device", "play", "pause", "resume"} ->
              /\ tasks' = [tasks EXCEPT ![k] = Return(task, "ok")]
              /\ UNCHANGED <<playing_videos, closed_sessions>>
         [] task.op = "stop" ->
              \* stop: `if not self.playing_device: raise NoDeviceException`
              /\ tasks' = [tasks EXCEPT ![k] =
                     IF video[t].playing_device = NoDevice
                     THEN Return(task, "NoDeviceException")
                     ELSE Return(task, "ok")]
              /\ UNCHANGED <<playing_videos, closed_sessions>>
         [] task.op = "close" ->
              \* close: `await device.on_close(self.local_token)`
              /\ tasks' = [tasks EXCEPT ![k] =
                     IF task.device = NoDevice
                     THEN Return(task, "AttributeError")
                     ELSE device_call(task, "on_close")]
              /\ UNCHANGED <<playing_videos, closed_sessions>>
         [] task.op = "handle_closed" ->
              \* handle_closed: `del self._playing_videos[local_token]`, then
              \* `await device.on_close(local_token)`
              IF t \notin playing_videos
              THEN /\ tasks' = [tasks EXCEPT ![k] = Return(task, "KeyError")]
                   /\ UNCHANGED <<playing_videos, closed_sessions>>
              ELSE /\ playing_videos' = playing_videos \ {t}
                   /\ UNCHANGED closed_sessions
                   /\ tasks' = [tasks EXCEPT ![k] =
                          LET removed == [task EXCEPT !.events = Append(@, "remove")]
                          IN  IF task.device = NoDevice
                              THEN Return(removed, "AttributeError")
                              ELSE device_call(removed, "on_close")]

\* `self.control_message = await self.video_message.reply(text, ...)` returns:
\* the chat holds a new control message and the session refers to it.
ReplyReturns ==
    \E k \in Tasks :
        LET task == tasks[k]
            t == task.tok
        IN  /\ task.pc = "reply"
            /\ Len(control_messages[t]) < MaxMessages
            /\ control_messages' =
                   [control_messages EXCEPT ![t] = Append(@, task.text)]
            /\ video' = [video EXCEPT ![t].control_message =
                                          Len(control_messages[t]) + 1]
            /\ AfterRender(k, [task EXCEPT !.shown = task.text])
            /\ UNCHANGED <<config, gateway, req, ever_authorized, last_timeout,
                           reaped_live>>

\* Message.edit_text as the chat answers it: an edit that would leave text
\* and buttons as they are is refused with MessageNotModified.
edit_text(shown, text) == IF shown = text THEN "MessageNotModified" ELSE "ok"

\* An edit whose MessageNotModified is not caught.
except_nothing(outcome) == outcome

\* `try: ... except MessageNotModified: pass` around the edit.
except_MessageNotModified(outcome) ==
    IF outcome = "MessageNotModified" THEN "ok" ELSE outcome

\* `await self.control_message.edit_text(text, ...)` returns: the message
\* shows the text, or it showed it already and MessageNotModified is passed.
EditReturns ==
    \E k \in Tasks :
        LET task == tasks[k]
            t == task.tok
            id == video[t].control_message
            answer == edit_text(control_messages[t][id], task.text)
            outcome == except_MessageNotModified(answer)
        IN  /\ task.pc = "edit"
            /\ control_messages' = [control_messages EXCEPT ![t][id] = task.text]
            /\ IF outcome = "ok"
               THEN AfterRender(k, [task EXCEPT
                        !.shown = control_messages'[t][id],
                        !.not_modified = (answer = "MessageNotModified")])
               ELSE /\ tasks' = [tasks EXCEPT ![k] = Return(task, outcome)]
                    /\ UNCHANGED <<playing_videos, closed_sessions>>
            /\ UNCHANGED <<config, gateway, req, ever_authorized, last_timeout,
                           reaped_live, video>>

\* html.escape on a device name: "<" becomes the entity "&lt;".
html_escape(name) ==
    [i \in 1..Len(name) |-> IF name[i] = "<" THEN "&lt;" ELSE name[i]]

\* PlayingVideo._gen_device_str as the markup it builds; `device` is what
\* gen_device_str gives, a device or "NONE".
gen_device_markup(device) ==
    <<"on device ", "<code>">>
    \o (IF device # NoDevice THEN html_escape(device_name[device])
        ELSE <<"NONE">>)
    \o <<"</code>">>

\* The markup of a control text: "<view> for file <code>id</code> on device
\* <code>name</code>", and ", <remaining>% remains" after a closed stream.
render_markup(text) ==
    LET head == <<text.view, " ", "for file ", "<code>", "id", "</code>", " ">>
                \o gen_device_markup(text.device)
    IN  IF text.view = "Streaming closed"
        THEN head \o <<",", " ", "remaining", "% remains">>
        ELSE head

IsTag(piece) == piece \in {"<code>", "</code>"}

\* Message.text of a control message read back from the chat: the text
\* without its markup, the tags gone and the entities decoded.
message_text(markup) ==
    LET plain == SelectSeq(markup, LAMBDA piece : ~IsTag(piece))
    IN  [i \in 1..Len(plain) |-> IF plain[i] = "&lt;" THEN "<" ELSE plain[i]]

\* PlayingVideo.parse_device_str: re.search("on device ([^,]*)", text); the
\* group runs from the first "on device " to the next comma or to the end.
parse_device_str(text) ==
    LET starts == {i \in 1..Len(text) : text[i] = "on device "}
        first == CHOOSE i \in starts : \A j \in starts : i <= j
        commas == {j \in (first + 1)..Len(text) : text[j] = ","}
        stop == IF commas = {} THEN Len(text) + 1
                ELSE CHOOSE j \in commas : \A m \in commas : j <= m
    IN  IF starts = {}
        THEN [matched |-> FALSE, group |-> <<>>]
        ELSE [matched |-> TRUE, group |-> SubSeq(text, first + 1, stop - 1)]

\* bot.find_device(device_name, user_id): the device of that name in the
\* user's directory, None when there is none.
find_device(name) ==
    IF \E d \in Devices : device_name[d] = name
    THEN CHOOSE d \in Devices : device_name[d] = name
    ELSE NoDevice

\* The process restarts: every object in memory is gone, the chat keeps its
\* messages.
Restart ==
    /\ DOMAIN control_messages # {}
    /\ playing_videos' = {}
    /\ video' = EmptyDict
    /\ tasks' = [k \in Tasks |-> IdleTask]
    /\ tokens' = {}
    /\ downloaded_blocks' = EmptyDict
    /\ stream_debounce' = EmptyDict
    /\ req' = [c \in Clients |-> IdleReq]
    /\ ever_authorized' = {}
    /\ closed_sessions' = {}
    /\ reaped_live' = {}
    /\ UNCHANGED <<config, last_timeout, control_messages>>

\* PlayingVideos.reconstruct_playing_video for a command that arrives on a
\* control message of the chat, to `await bot.get_message`; a session that
\* is in the registry is returned as it is.
Reconstruct ==
    \E k \in Tasks, t \in DOMAIN control_messages :
        \E id \in 1..Len(control_messages[t]) :
            LET task == [IdleTask EXCEPT !.op = "reconstruct", !.tok = t]
            IN  /\ Free(k)
                /\ ~Running(t)
                /\ tasks' = [tasks EXCEPT ![k] =
                      IF t \in playing_videos
                      THEN Return(task, "ok")
                      ELSE [task EXCEPT !.pc = "get_message",
                                        !.control = id,
                                        !.text = control_messages[t][id]]]
                /\ UNCHANGED <<config, gateway, req, ever_authorized,
                               last_timeout, closed_sessions, reaped_live,
                               playing_videos, video, control_messages>>

\* reconstruct_playing_video from the video message to `await
\* bot.find_device`: the device name is parsed out of the control text.
ReconstructParse ==
    \E k \in Tasks :
        LET task == tasks[k]
            found == parse_device_str(message_text(render_markup(task.text)))
        IN  /\ task.op = "reconstruct" /\ task.pc = "get_message"
            /\ tasks' = [tasks EXCEPT ![k] =
                  [task EXCEPT !.pc = "find_device",
                               !.parsed = IF found.matched THEN found.group
                                          ELSE <<>>]]
            /\ UNCHANGED <<config, gateway, req, ever_authorized,
                           last_timeout, closed_sessions, reaped_live,
                           playing_videos, video, control_messages>>

\* reconstruct_playing_video from the return of find_device: new_video with
\* the device that was found and the control message of the command.
ReconstructFound ==
    \E k \in Tasks :
        LET task == tasks[k]
            t == task.tok
            device == find_device(task.parsed)
        IN  /\ task.op = "reconstruct" /\ task.pc = "find_device"
            /\ playing_videos' = playing_videos \cup {t}
            /\ video' = Put(video, t, [playing_device |-> device,
                                       control_message |-> task.control])
            /\ tasks' = [tasks EXCEPT ![k] =
                  Return([task EXCEPT !.device = device], "ok")]
            /\ UNCHANGED <<config, gateway, req, ever_authorized,
                           last_timeout, closed_sessions, reaped_live,
                           control_messages>>

NextVideo ==
    \/ NewVideo
    \/ SelectDevice
    \/ Stop
    \/ Close
    \/ HandleClosed
    \/ DeviceReturns
    \/ DeviceRaises
    \/ ReplyReturns
    \/ EditReturns

\* The commands of a session that has a video: device selection, play, pause,
\* resume and stop.
NextPlayback ==
    \/ NewVideo
    \/ SelectDevice
    \/ Play
    \/ Pause
    \/ Resume
    \/ Stop
    \/ DeviceReturns
    \/ DeviceRaises
    \/ ReplyReturns
    \/ EditReturns

\* Every operation of a session.
NextSession ==
    \/ NextPlayback
    \/ Close
    \/ HandleClosed

\* One request per client, no idle timeout: the range arithmetic of
\* _stream_handler over every configuration.
InitStream ==
    /\ InitHttp(1..MaxBlockSize, 0..MaxSize, 0..MaxPartial)
    /\ InitVideo
    /\ device_name = [d \in Devices |-> <<d>>]

NextStream ==
    \/ AddRemoteToken
    \/ StreamRequest
    \/ StreamGetMessage
    \/ StreamGetBlock
    \/ StreamWritten
    \/ ClientDisconnect

SpecStream == InitStream /\ [][NextStream]_vars

\* The gateway alone: requests one after the other and the idle timeout.
InitProto ==
    /\ InitHttp({ProtoBlockSize}, 1..ProtoMaxSize, {0})
    /\ InitVideo
    /\ device_name = [d \in Devices |-> <<d>>]

NextHttp ==
    \/ NextStream
    \/ StreamReturn
    \/ Timeout

SpecHttp == InitProto /\ [][NextHttp]_vars

\* The fetch loop against a backend that may return an empty block. The event
\* loop resumes every coroutine whose awaited call has completed, and every
\* backend call and every write completes.
NextLoop ==
    \/ AddRemoteToken
    \/ StreamRequestNoRange
    \/ StreamGetMessage
    \/ StreamGetBlock
    \/ StreamGetBlockEmpty
    \/ StreamWritten
    \/ ClientDisconnect

SpecLoop ==
    /\ InitProto
    /\ [][NextLoop]_vars
    /\ WF_vars(StreamGetMessage)
    /\ WF_vars(StreamGetBlock \/ StreamGetBlockEmpty)
    /\ WF_vars(StreamWritten)

\* The sessions alone, and the gateway and the sessions together: a content
\* of one block.
Init ==
    /\ InitHttp({ProtoBlockSize}, {ProtoBlockSize}, {0})
    /\ InitVideo
    /\ device_name = [d \in Devices |-> <<d>>]

SpecVideo == Init /\ [][NextVideo]_vars

SpecPlayback == Init /\ [][NextPlayback]_vars

SpecSession == Init /\ [][NextSession]_vars

\* Sessions are rendered, the process restarts, and commands on the control
\* messages left in the chat reconstruct the sessions; device names are drawn
\* from every name of 1..MaxName characters.
InitRestart ==
    /\ InitHttp({ProtoBlockSize}, {ProtoBlockSize}, {0})
    /\ InitVideo
    /\ InitDevices(Names(MaxName))

NextRestart ==
    \/ NewVideo
    \/ Play
    \/ Pause
    \/ Close
    \/ DeviceReturns
    \/ DeviceRaises
    \/ ReplyReturns
    \/ EditReturns
    \/ Restart
    \/ Reconstruct
    \/ ReconstructParse
    \/ ReconstructFound

SpecRestart == InitRestart /\ [][NextRestart]_vars

\* Renders of one session that overlap: a second coroutine starts while the
\* first is suspended in its render.
InitOverlap ==
    /\ InitHttp({ProtoBlockSize}, {ProtoBlockSize}, {0})
    /\ InitTasks(MaxOverlap)
    /\ device_name = [d \in Devices |-> <<d>>]

NextOverlap ==
    \/ NewVideo
    \/ SelectDevice
    \/ Stop
    \/ DeviceReturns
    \/ DeviceRaises
    \/ ReplyReturns
    \/ EditReturns

SpecOverlap == InitOverlap /\ [][NextOverlap]_vars

\* Sessions are created and closed while the gateway streams and reaps.
Next ==
    \/ AddRemoteToken
    \/ StreamRequestNoRange
    \/ StreamGetMessage
    \/ StreamGetBlock
    \/ StreamWritten
    \/ Timeout
    \/ NewVideo
    \/ Close
    \/ HandleClosed
    \/ DeviceReturns
    \/ DeviceRaises
    \/ ReplyReturns
    \/ EditReturns

Spec == Init /\ [][Next]_vars

\* ------------------------------------------------------------------ claims
\* A request that was accepted (200 or 206) and ran to the end of the handler
\* with the client still there.
Completed(r) == r.pc = "done" /\ r.status \in {200, 206} /\ r.alive

\* The content bytes of the window [first, last_exclusive).
Window(first, last_exclusive) ==
    [i \in 1..Max(0, last_exclusive - first) |-> first + i - 1]

\* C1: a stream request whose path derives a token that was never passed to
\* add_remote_token is answered 403 in the first step of the handler, whether
\* or not the message exists: no backend lookup, block fetch or debouncer feed
\* is made for it, and the token registry, the downloaded-block sets and the
\* debouncers are left as they were.
C1_UnauthorizedIs403 ==
    [][\A c \in Clients :
          (/\ req[c].pc = "idle"
           /\ req'[c].pc # "idle"
           /\ req'[c].local_token # None
           /\ req'[c].local_token \notin ever_authorized)
          => (/\ req'[c].pc = "done"
              /\ req'[c].status = 403
              /\ req'[c].calls = {}
              /\ UNCHANGED gateway)]_vars

\* C1 witness: a never-authorized token for the existing document was refused
\* while another token was authorized.
C1_Witness ==
    \E c \in Clients :
        /\ req[c].pc = "done" /\ req[c].status = 403 /\ ~req[c].known
        /\ media[req[c].message_id].kind = "document"
        /\ tokens # {}

\* C2 (as stated): every completed request wrote exactly the bytes of the
\* window [requested_start, exclusive_end), and their number is
\* exclusive_end - requested_start.
C2_Original ==
    \A c \in Clients :
        Completed(req[c]) =>
            /\ req[c].written = Window(req[c].read_after, req[c].max_size)
            /\ Len(req[c].written) = req[c].max_size - req[c].read_after

\* C2 (amended): every completed request wrote exactly the bytes of the
\* window [requested_start, exclusive_end) in increasing offset order; their
\* number is exclusive_end - requested_start when the window is not inverted,
\* and no byte is written when the explicit end lies before the start.
C2_WindowDelivered ==
    \A c \in Clients :
        Completed(req[c]) =>
            /\ req[c].written = Window(req[c].read_after, req[c].max_size)
            /\ req[c].read_after <= req[c].max_size
                   => Len(req[c].written) = req[c].max_size - req[c].read_after
            /\ req[c].read_after > req[c].max_size => req[c].written = <<>>

\* C2 witness: a completed range request whose first byte and last byte lie
\* inside the same block, after its start and before its end.
C2_Witness ==
    \E c \in Clients :
        LET r == req[c]
            first == (r.read_after \div block_size) * block_size
        IN  /\ Completed(r)
            /\ r.range.kind = "bytes"
            /\ first < r.read_after
            /\ r.read_after < r.max_size
            /\ r.max_size < Min(first + block_size, r.size)
            /\ Len(r.written) = r.max_size - r.read_after

\* C3: the Content-Length of a 200 or 206 response is the number of bytes the
\* response returns, exclusive_end - requested_start.
C3_ContentLengthIsReturned ==
    \A c \in Clients :
        req[c].status \in {200, 206} =>
            req[c].content_length = req[c].max_size - req[c].read_after

\* C4: a stream request that arrives after the session of its token was
\* closed (and the token was not authorized again) is answered 403.
C4_ClosedTokenRejected ==
    \A c \in Clients :
        (req[c].pc # "idle" /\ req[c].after_close) => req[c].status = 403

\* C5: a run of the idle-timeout handler reaches its end: it never stops at
\* an exception before the token is removed and the chat is notified.
C5_TimeoutHandlerCompletes ==
    last_timeout.outcome \in {"none", "notified"}

\* C6: the remaining amount the idle-timeout handler reports is counted
\* against the number of blocks the content occupies and lies between 0 and 1.
C6_RemainingInUnitInterval ==
    last_timeout.outcome = "notified" =>
        /\ last_timeout.blocks * block_size >= last_timeout.size
        /\ 0 <= last_timeout.remain_blocks
        /\ last_timeout.remain_blocks <= last_timeout.blocks

\* C7: once the idle-timeout handler has reaped a token whose session was in
\* the registry, that session is closed: it is out of the registry.
C7_TimeoutClosesSession ==
    \A t \in reaped_live : Running(t) \/ t \notin playing_videos

\* C8: a close or handle_closed that has ended removed the session from the
\* registry and, when the session had a device, called its on_close.
C8_CloseRemovesAndNotifies ==
    \A k \in Tasks :
        (tasks[k].op \in {"close", "handle_closed"} /\ tasks[k].pc = "done"
         /\ tasks[k].events # <<>>)
        => /\ "remove" \in Elements(tasks[k].events)
           /\ tasks[k].device # NoDevice
                  => "on_close" \in Elements(tasks[k].events)

\* C9: close and handle_closed render the "Streaming closed" view with the
\* remaining percentage they were given, never the "Controller" view.
C9_CloseRendersClosed ==
    \A k \in Tasks :
        (tasks[k].op \in {"close", "handle_closed"} /\ tasks[k].events # <<>>)
        => /\ tasks[k].text.view = "Streaming closed"
           /\ tasks[k].text.remaining = tasks[k].remains

\* C10: stop ends normally or with the no-device error, never with a failure
\* of the device; the stopped ("Controller") view has been rendered when it
\* ends; a stop that commanded a device ends normally even if the command
\* failed; the no-device error comes only after the render, from a stop that
\* found no device to command.
C10_StopLeavesStoppedView ==
    \A k \in Tasks :
        tasks[k].op = "stop" =>
            /\ tasks[k].pc # "done" => tasks[k].result = "none"
            /\ tasks[k].pc = "done" =>
                   /\ tasks[k].result \in {"ok", "NoDeviceException"}
                   /\ tasks[k].shown.view = "Controller"
                   /\ "Controller" \in Elements(tasks[k].events)
            /\ (tasks[k].pc = "done" /\ "stop" \in Elements(tasks[k].events))
                   => tasks[k].result = "ok"
            /\ tasks[k].result = "NoDeviceException"
                   => tasks[k].events = <<"Controller">>

\* C10 witness: a stop whose device command failed has ended normally with
\* the stopped view on the control surface.
C10_Witness ==
    \E k \in Tasks :
        /\ tasks[k].op = "stop" /\ tasks[k].pc = "done"
        /\ tasks[k].device_failed
        /\ tasks[k].result = "ok"
        /\ tasks[k].shown.view = "Controller"

\* s is an initial part of t.
IsPrefix(s, t) == Len(s) <= Len(t) /\ SubSeq(t, 1, Len(s)) = s

\* The effects of a play on a bound session, in their order.
PlayOrder == <<"add_to_http", "stop", "play", "Playing">>

\* C11: play on a session without a device ends with the no-device error and
\* authorizes no token, commands no device and renders nothing; on a bound
\* session the token is authorized first, then the device gets stop, then
\* play, then the playing view is rendered; a failing device command ends
\* play with that failure and the playing view is not rendered.
C11_PlayOrder ==
    [][\A k \in Tasks :
          tasks'[k].op = "play" =>
              LET task == tasks'[k]
                  begins == tasks[k] # task /\ tasks[k].pc # "device"
                            /\ tasks[k].pc # "reply" /\ tasks[k].pc # "edit"
              IN  /\ IsPrefix(task.events, PlayOrder)
                  /\ task.device = NoDevice =>
                         /\ task.pc = "done"
                         /\ task.result = "NoDeviceException"
                         /\ task.events = <<>>
                         /\ begins => UNCHANGED <<tokens, control_messages>>
                  /\ task.device # NoDevice =>
                         /\ task.result # "NoDeviceException"
                         /\ begins => /\ task.tok \in tokens'
                                      /\ task.events = <<"add_to_http", "stop">>
                  /\ task.device_failed =>
                         /\ task.pc = "done"
                         /\ task.result = "DeviceError"
                         /\ "Playing" \notin Elements(task.events)
                  /\ task.pc = "done" =>
                         task.result \in {"ok", "NoDeviceException", "DeviceError"}
                  /\ (task.pc = "done" /\ task.result = "ok") =>
                         /\ task.events = PlayOrder
                         /\ task.shown.view = "Playing"]_vars

\* C11 witness: a play on a bound session has run to its end, its four
\* effects in order.
C11_Witness ==
    \E k \in Tasks :
        /\ tasks[k].op = "play" /\ tasks[k].pc = "done"
        /\ tasks[k].result = "ok"
        /\ tasks[k].events = PlayOrder
        /\ tasks[k].tok \in tokens

\* C15: pause and resume end with the no-device error when no device is bound
\* and with the unsupported-action error when the device lacks the command,
\* both before any device command and any render; on a capable device the
\* command is issued and then the Paused view (pause) or the Playing view
\* (resume) is rendered.
C15_PauseResume ==
    \A k \in Tasks :
        tasks[k].op \in {"pause", "resume"} =>
            LET task == tasks[k]
                view == IF task.op = "pause" THEN "Paused" ELSE "Playing"
                capable == task.device = "tv"
            IN  /\ IsPrefix(task.events, <<task.op, view>>)
                /\ task.device = NoDevice =>
                       /\ task.pc = "done"
                       /\ task.result = "NoDeviceException"
                       /\ task.events = <<>>
                /\ (task.device # NoDevice /\ ~capable) =>
                       /\ task.pc = "done"
                       /\ task.result = "ActionNotSupportedException"
                       /\ task.events = <<>>
                /\ capable => task.events # <<>> /\ task.events[1] = task.op
                /\ (task.pc = "done" /\ capable /\ ~task.device_failed) =>
                       /\ task.result = "ok"
                       /\ task.events = <<task.op, view>>
                       /\ task.shown.view = view

\* C15 witness: a pause on a device that cannot pause was refused while the
\* session had a control message, which still shows what it showed.
C15_Witness ==
    \E k \in Tasks :
        /\ tasks[k].op = "pause" /\ tasks[k].pc = "done"
        /\ tasks[k].device = "dlna"
        /\ tasks[k].result = "ActionNotSupportedException"
        /\ video[tasks[k].tok].control_message # None
        /\ control_messages[tasks[k].tok][1].view = "Controller"

\* C16: an edit that finds the control message already showing the text it
\* renders does not end the coroutine with MessageNotModified: the coroutine
\* goes on as after any render, and the message and the session's reference
\* to it are as they were.
C16_RerenderIsNoop ==
    [][\A k \in Tasks :
          LET task == tasks[k]
              t == task.tok
          IN  (/\ task.pc = "edit"
               /\ tasks'[k] # task
               /\ control_messages[t][video[t].control_message] = task.text)
              => /\ tasks'[k].result # "MessageNotModified"
                 /\ tasks'[k].not_modified
                 /\ tasks'[k].shown = task.text
                 /\ video'[t].control_message = video[t].control_message
                 /\ control_messages' = control_messages]_vars

\* C16 witness: a close met a control message that already showed its
\* "Streaming closed" text and went on to the device.
C16_Witness ==
    \E k \in Tasks :
        /\ tasks[k].not_modified
        /\ tasks[k].shown.view = "Streaming closed"
        /\ "on_close" \in Elements(tasks[k].events)

\* C12: an authorized request for a document whose Range starts beyond the
\* content size, or has an explicit end beyond it, is answered 400: nothing
\* is written, no debouncer is fed and no block is fetched for it.
C12_OutOfBoundsIs400 ==
    \A c \in Clients :
        LET r == req[c]
            size == media[r.message_id].size
        IN  (/\ r.pc # "idle"
             /\ r.range.kind = "bytes"
             /\ media[r.message_id].kind = "document"
             /\ \/ r.range.start > size
                \/ r.range.end # None /\ r.range.end >= size)
            => /\ r.pc = "get_message" \/ (r.pc = "done" /\ r.status = 400)
               /\ r.written = <<>>
               /\ r.calls \subseteq {"get_message"}

\* C12 witness: an open-ended range that starts beyond the content of an
\* authorized document was answered 400.
C12_Witness ==
    \E c \in Clients :
        /\ req[c].pc = "done" /\ req[c].status = 400
        /\ req[c].range.kind = "bytes" /\ req[c].range.end = None
        /\ media[req[c].message_id].kind = "document"
        /\ req[c].range.start > media[req[c].message_id].size
        /\ req[c].local_token \in tokens

\* C13: the status of an accepted request is 206 exactly when the response
\* starts after byte 0 or ends before the end of the content, and 200
\* otherwise: 200 without a Range header and 200 for a range that covers the
\* whole content.
C13_StatusPartialIffWindowProper ==
    \A c \in Clients :
        LET r == req[c]
        IN  r.status \in {200, 206} =>
                /\ r.status = 206 <=> (r.read_after > 0 \/ r.max_size < r.size)
                /\ r.range.kind = "absent" => r.status = 200
                /\ (r.range.kind = "bytes" /\ r.range.start = 0
                    /\ r.range.end = r.size - 1) => r.status = 200

\* C13 witness: a Range that covers the whole of a non-empty content was
\* answered 200 and served to its end.
C13_Witness ==
    \E c \in Clients :
        /\ Completed(req[c]) /\ req[c].status = 200
        /\ req[c].range.kind = "bytes"
        /\ req[c].size > 0
        /\ Len(req[c].written) = req[c].size

\* C17: a debouncer and a downloaded-block set exist for a token only while
\* the token is in the authorized set.
C17_GatewayStateOnlyWhileAuthorized ==
    /\ DOMAIN stream_debounce \subseteq tokens
    /\ DOMAIN downloaded_blocks \subseteq tokens

\* C19: the idle-timeout handler does not reap a token while a request for
\* that token is between the debouncer feed and the block insert of a loop
\* iteration (waiting for the block or for the write).
C19_NoReapInsideIteration ==
    [][\A c \in Clients :
          (/\ req[c].pc \in {"get_block", "write"}
           /\ req[c].local_token \in tokens)
          => req[c].local_token \in tokens']_vars

\* C18: a session has at most one control message in the chat over its life.
C18_OneControlMessage ==
    \A t \in DOMAIN control_messages : Len(control_messages[t]) <= 1

\* C20: the fetch loop of an accepted request ends, whatever blocks the
\* backend returns: a request that waits for a block reaches the end of the
\* handler, where the response is finalized.
C20_LoopTerminates ==
    \A c \in Clients : (req[c].pc = "get_block") ~> (req[c].pc = "done")

\* C14: a session reconstructed from a control message is bound to the
\* device that was bound when the text of that message was rendered (to no
\* device when the text was rendered without one).
C14_ReconstructedDeviceMatches ==
    \A k \in Tasks :
        (/\ tasks[k].op = "reconstruct" /\ tasks[k].pc = "done"
         /\ tasks[k].control # None)
        => tasks[k].device = tasks[k].text.device

====
